---- MODULE Spec2Model ----
(***************************************************************************)
(* Model of the scaffold's typed environment loader (env.ts: createEnv     *)
(* over a zod schema) and of the singleton axios client built from it      *)
(* (src/lib/api-client.ts): base-URL resolution, the request interceptor   *)
(* that injects the bearer token and the response interceptor that logs    *)
(* and re-rejects failures.                                                *)
(*                                                                         *)
(* Strings are TLA+ strings.  An object with optional members (process.env,*)
(* the runtimeEnv literal, a header bag, localStorage) is a function whose *)
(* DOMAIN holds the members that are defined: a member that is undefined   *)
(* and a member that is missing read the same in every place the code      *)
(* reads them.                                                             *)
(***************************************************************************)
EXTENDS Integers, Sequences, FiniteSets, TLC

VARIABLES
    processEnv,    \* process.env as the process was started (never written)
    window,        \* TRUE iff `typeof window !== "undefined"` (browser context)
    pc,            \* position of module evaluation: start, loaded, reloaded, done
    runtimeEnv,    \* the object literal handed to createEnv (createEnv deletes from it)
    env,           \* what env.ts exports, or the failure createEnv threw
    apiClient,     \* the singleton axios instance, or the failure of its module
    localStorage,  \* the browser's token store (meaningful only when window)
    requests       \* the calls made through the client, by slot

vars == <<processEnv, window, pc, runtimeEnv, env, apiClient, localStorage, requests>>

----------------------------------------------------------------------------
(* Objects with optional members *)

Has(obj, k) == k \in DOMAIN obj

Restrict(obj, S) == [k \in (DOMAIN obj) \cap S |-> obj[k]]

\* JavaScript truthiness of `obj[k]` where the member is a string or undefined
Truthy(obj, k) == Has(obj, k) /\ obj[k] # ""

EmptyObject == [k \in {} |-> ""]

----------------------------------------------------------------------------
(* env.ts: the schema *)

ServerNames == {"NODE_ENV", "DATABASE_URL", "API_SECRET_KEY"}

ClientNames == {"NEXT_PUBLIC_API_URL", "NEXT_PUBLIC_APP_NAME"}

DeclaredNames == ServerNames \cup ClientNames

NodeEnvLiterals == {"development", "test", "production"}

\* The sample strings that `new URL(s)` accepts (z.string().url()); every
\* other sample string is rejected by it.
WellFormedURLs ==
    {"https://api.example.com", "postgres://db:5432/app", "http://localhost:3000/api"}

IsURL(s) == s \in WellFormedURLs

\* TRUE iff value v fails the zod rule declared for name k
Violates(k, v) ==
    CASE k = "NODE_ENV"             -> v \notin NodeEnvLiterals
      [] k = "DATABASE_URL"         -> ~IsURL(v)
      [] k = "API_SECRET_KEY"       -> Len(v) < 1
      [] k = "NEXT_PUBLIC_API_URL"  -> ~IsURL(v)
      [] k = "NEXT_PUBLIC_APP_NAME" -> FALSE

HasDefault(k) == k \in {"NODE_ENV", "NEXT_PUBLIC_APP_NAME"}

Default(k) == IF k = "NODE_ENV" THEN "development" ELSE "NES App"

\* runtimeEnv: { NAME: process.env.NAME, ... } for the five declared names
RuntimeEnvOf(penv) == Restrict(penv, DeclaredNames)

\* skipValidation: !!process.env.SKIP_ENV_VALIDATION
SkipValidation(penv) == Truthy(penv, "SKIP_ENV_VALIDATION")

----------------------------------------------------------------------------
(* createEnv, as env.ts configures it *)

\* A mutation of EmptyStringAsUndefined: the option left off.
KeepEmptyStrings(obj) == obj

\* emptyStringAsUndefined: true -- every member equal to "" is deleted
EmptyStringAsUndefined(obj) ==
    Restrict(obj, {k \in DOMAIN obj : obj[k] # ""})

\* A mutation of Issues: parsing stops at the first failing field.
FirstIssueOnly(obj, names) ==
    LET all == {k \in names \cap DOMAIN obj : Violates(k, obj[k])}
    IN  IF all = {} THEN {} ELSE {CHOOSE k \in all : TRUE}

\* safeParse: the fields of the schema whose value is present and fails its
\* rule; zod visits every field and collects every issue.
Issues(obj, names) ==
    {k \in names \cap DOMAIN obj : Violates(k, obj[k])}

\* safeParse's data: present values as they are, defaults where absent
Parsed(obj, names) ==
    [k \in {n \in names : Has(obj, n) \/ HasDefault(n)} |->
        IF Has(obj, k) THEN obj[k] ELSE Default(k)]

\* The schema that is enforced: server and client rules on the server, the
\* client rules alone in a browser.
SchemaNames(isServer) == IF isServer THEN DeclaredNames ELSE ClientNames

\* A mutation of createEnv: the schema is applied to the object before the
\* empty strings are deleted from it.
createEnvValidateFirst(obj, skip, isServer) ==
    LET stripped == EmptyStringAsUndefined(obj)
        names    == SchemaNames(isServer)
        issues   == Issues(obj, names)
    IN  [runtimeEnv |-> stripped,
         env |-> IF skip THEN [kind |-> "ok", data |-> stripped]
                 ELSE IF issues # {}
                      THEN [kind |-> "ConfigValidationError", fields |-> issues]
                      ELSE [kind |-> "ok", data |-> Parsed(stripped, names)]]

\* createEnv({server, client, runtimeEnv, skipValidation,
\* emptyStringAsUndefined}): deletes the empty members from the object it is
\* given, returns that object as it is when validation is skipped, and
\* otherwise parses it, throwing on any issue.
createEnv(obj, skip, isServer) ==
    LET stripped == EmptyStringAsUndefined(obj)
        names    == SchemaNames(isServer)
        issues   == Issues(stripped, names)
    IN  [runtimeEnv |-> stripped,
         env |-> IF skip THEN [kind |-> "ok", data |-> stripped]
                 ELSE IF issues # {}
                      THEN [kind |-> "ConfigValidationError", fields |-> issues]
                      ELSE [kind |-> "ok", data |-> Parsed(stripped, names)]]

----------------------------------------------------------------------------
(* api-client.ts: construction *)

Fallback == "http://localhost:3000/api"

Timeout == 10000

MissingInProduction ==
    "NEXT_PUBLIC_API_URL is required in production. Add it to your environment variables."

\* A mutation of getBaseURL: the production check is gone.
getBaseURLAlwaysFallsBack(config, penv) ==
    IF Truthy(config, "NEXT_PUBLIC_API_URL")
    THEN [kind |-> "return", value |-> config["NEXT_PUBLIC_API_URL"]]
    ELSE [kind |-> "return", value |-> Fallback]

\* A mutation of getBaseURL: the configured URL is consulted last.
getBaseURLFallbackFirst(config, penv) ==
    IF Has(penv, "NODE_ENV") /\ penv["NODE_ENV"] = "production"
    THEN IF Truthy(config, "NEXT_PUBLIC_API_URL")
         THEN [kind |-> "return", value |-> config["NEXT_PUBLIC_API_URL"]]
         ELSE [kind |-> "throw", error |-> MissingInProduction]
    ELSE [kind |-> "return", value |-> Fallback]

\* getBaseURL: env.NEXT_PUBLIC_API_URL if truthy; else throw when
\* process.env.NODE_ENV === "production"; else the development fallback
getBaseURL(config, penv) ==
    IF Truthy(config, "NEXT_PUBLIC_API_URL")
    THEN [kind |-> "return", value |-> config["NEXT_PUBLIC_API_URL"]]
    ELSE IF Has(penv, "NODE_ENV") /\ penv["NODE_ENV"] = "production"
         THEN [kind |-> "throw", error |-> MissingInProduction]
         ELSE [kind |-> "return", value |-> Fallback]

NoClient == [state |-> "none"]

\* axios.create({baseURL, timeout, headers}) followed by the two
\* interceptors.*.use registrations
NewClient(baseURL) ==
    [state        |-> "created",
     baseURL      |-> baseURL,
     timeout      |-> Timeout,
     headers      |-> [h \in {"Content-Type"} |-> "application/json"],
     interceptors |-> [request |-> <<"authToken">>, response |-> <<"errorHandler">>]]

----------------------------------------------------------------------------
(* api-client.ts: the interceptors *)

Put(obj, k, v) == [x \in (DOMAIN obj) \cup {k} |-> IF x = k THEN v ELSE obj[x]]

\* What a call has not produced yet
NoResponse == [kind |-> "none"]

Pending == [kind |-> "pending"]

Idle ==
    [pc |-> "idle", url |-> "", headers |-> EmptyObject, sent |-> 0,
     response |-> NoResponse, result |-> Pending, log |-> <<>>]

\* apiClient.get/post/patch/delete(url): the request config is a copy of the
\* instance's defaults merged with the call's own.  No handler of this client
\* reads the verb, so the config keeps the url and the headers.
NewRequest(client, url) ==
    [pc |-> "queued", url |-> url, headers |-> client.headers,
     sent |-> 0, response |-> NoResponse, result |-> Pending, log |-> <<>>]

\* A mutation of authToken: the token is tested against null, not for
\* truthiness.
authTokenNullCheck(headers, win, store, defaults) ==
    [headers  |-> IF win /\ Has(store, "auth_token")
                  THEN Put(headers, "Authorization", "Bearer " \o store["auth_token"])
                  ELSE headers,
     defaults |-> defaults]

\* A mutation of authToken: the header is set on the instance's defaults
\* as well as on the request.
authTokenOnDefaults(headers, win, store, defaults) ==
    IF win /\ Truthy(store, "auth_token")
    THEN [headers  |-> Put(headers, "Authorization", "Bearer " \o store["auth_token"]),
          defaults |-> Put(defaults, "Authorization", "Bearer " \o store["auth_token"])]
    ELSE [headers |-> headers, defaults |-> defaults]

\* The request interceptor's fulfilled handler: what it leaves in the
\* config's headers, and in the instance's default headers (which it never
\* touches)
authToken(headers, win, store, defaults) ==
    [headers  |-> IF win /\ Truthy(store, "auth_token")
                  THEN Put(headers, "Authorization", "Bearer " \o store["auth_token"])
                  ELSE headers,
     defaults |-> defaults]

\* axios settles a reply by validateStatus: 2xx resolves, anything else
\* rejects with an AxiosError carrying the response
IsSuccess(status) == status >= 200 /\ status < 300

Reply(status, url) ==
    IF IsSuccess(status)
    THEN [kind |-> "resolved", response |-> [status |-> status, data |-> "body"]]
    ELSE [kind |-> "rejected",
          error |-> [message  |-> "Request failed with status code " \o ToString(status),
                     response |-> [f \in {"status"} |-> status],
                     url      |-> url]]

\* A failure with no response at all: the connection failed or timed out
NoReply(message, url) ==
    [kind |-> "rejected",
     error |-> [message |-> message, response |-> EmptyObject, url |-> url]]

\* The response interceptor's fulfilled handler: (response) => response
onFulfilled(response) == [log |-> <<>>, settle |-> "fulfil", value |-> response]

\* A mutation of onRejected: the handler logs and returns nothing, so the
\* promise is fulfilled with undefined.
onRejectedNoReject(error) ==
    [log |-> <<<<"[API Error] " \o error.url, error.message>>>>,
     settle |-> "fulfil", value |-> EmptyObject]

\* A mutation of onRejected: a 401 is answered with apiClient(error.config).
onRejectedRetries401(error) ==
    IF Has(error.response, "status") /\ error.response["status"] = 401
    THEN [log |-> <<<<"[401 Unauthorized] " \o error.url>>>>,
          settle |-> "retry", value |-> error]
    ELSE [log |-> <<<<"[API Error] " \o error.url, error.message>>>>,
          settle |-> "reject", value |-> error]

\* A mutation of onRejected: the 403 case has lost its break and falls
\* through to the 404 case.
onRejectedFallsThrough(error) ==
    LET known  == Has(error.response, "status")
        status == IF known THEN error.response["status"] ELSE 0
        shown  == IF known THEN ToString(status) ELSE "undefined"
        lines ==
            CASE known /\ status = 401 -> <<<<"[401 Unauthorized] " \o error.url>>>>
              [] known /\ status = 403 -> <<<<"[403 Forbidden] " \o error.url>>,
                                            <<"[404 Not Found] " \o error.url>>>>
              [] known /\ status = 404 -> <<<<"[404 Not Found] " \o error.url>>>>
              [] known /\ status = 500 -> <<<<"[500 Server Error] " \o error.url>>>>
              [] OTHER -> <<<<"[API Error " \o shown \o "] " \o error.url, error.message>>>>
    IN  [log |-> lines, settle |-> "reject", value |-> error]

\* The response interceptor's rejected handler: one console.error by the
\* status, then Promise.reject(error)
onRejected(error) ==
    LET known  == Has(error.response, "status")
        status == IF known THEN error.response["status"] ELSE 0
        shown  == IF known THEN ToString(status) ELSE "undefined"
        line ==
            CASE known /\ status = 401 -> <<"[401 Unauthorized] " \o error.url>>
              [] known /\ status = 403 -> <<"[403 Forbidden] " \o error.url>>
              [] known /\ status = 404 -> <<"[404 Not Found] " \o error.url>>
              [] known /\ status = 500 -> <<"[500 Server Error] " \o error.url>>
              [] OTHER -> <<"[API Error " \o shown \o "] " \o error.url, error.message>>
    IN  [log |-> <<line>>, settle |-> "reject", value |-> error]

----------------------------------------------------------------------------
(* Bounds and sample inputs *)

MaxRequests == 2

Slots == 1 .. MaxRequests

Paths == {"/users"}

Statuses == {200, 401, 403, 404, 500, 503}

TransportFailures == {"Network Error", "timeout of 10000ms exceeded"}

Tokens == {"", "abc123", "xyz789"}

Stores == {EmptyObject} \cup {[k \in {"auth_token"} |-> t] : t \in Tokens}

Absent == "<absent>"

Samples(k) ==
    CASE k = "NODE_ENV"             -> {"", "development", "test", "production", "staging"}
      [] k = "DATABASE_URL"         -> {"", "postgres://db:5432/app", "not-a-url"}
      [] k = "API_SECRET_KEY"       -> {"", "s3cret"}
      [] k = "NEXT_PUBLIC_API_URL"  -> {"", "https://api.example.com", "not-a-url"}
      [] k = "NEXT_PUBLIC_APP_NAME" -> {"", "My App"}
      [] k = "SKIP_ENV_VALIDATION"  -> {"", "1", "0"}

Opt(k) == Samples(k) \cup {Absent}

AllNames == DeclaredNames \cup {"SKIP_ENV_VALIDATION"}

\* process.env with the members t gives a value, the others not set
EnvOf(t) == Restrict(t, {k \in AllNames : t[k] # Absent})

RawEnvs ==
    {EnvOf([k \in AllNames |->
              CASE k = "NODE_ENV"             -> n
                [] k = "DATABASE_URL"         -> d
                [] k = "API_SECRET_KEY"       -> s
                [] k = "NEXT_PUBLIC_API_URL"  -> u
                [] k = "NEXT_PUBLIC_APP_NAME" -> a
                [] k = "SKIP_ENV_VALIDATION"  -> v]) :
        n \in Opt("NODE_ENV"), d \in Opt("DATABASE_URL"), s \in Opt("API_SECRET_KEY"),
        u \in Opt("NEXT_PUBLIC_API_URL"), a \in Opt("NEXT_PUBLIC_APP_NAME"),
        v \in Opt("SKIP_ENV_VALIDATION")}

\* In the browser bundle only the NEXT_PUBLIC_ members are exposed, and
\* process.env.NODE_ENV is inlined by the build as one of its literals.
BrowserEnvs ==
    {e \in RawEnvs :
        /\ DOMAIN e \subseteq ClientNames \cup {"NODE_ENV"}
        /\ Has(e, "NODE_ENV") /\ e["NODE_ENV"] \in NodeEnvLiterals}

\* The environments the request traffic is explored under
TrafficEnvs ==
    {e \in RawEnvs :
        /\ DOMAIN e \subseteq {"NODE_ENV", "NEXT_PUBLIC_API_URL"}
        /\ Has(e, "NODE_ENV") => e["NODE_ENV"] = "production"
        /\ Has(e, "NEXT_PUBLIC_API_URL") =>
               e["NEXT_PUBLIC_API_URL"] = "https://api.example.com"}

----------------------------------------------------------------------------
(* The state machine *)

InitWith(envs) ==
    /\ window \in BOOLEAN
    /\ processEnv \in (IF window THEN envs \cap BrowserEnvs ELSE envs)
    /\ pc = "start"
    /\ runtimeEnv = EmptyObject
    /\ env = [kind |-> "unset"]
    /\ apiClient = NoClient
    /\ localStorage \in (IF window THEN Stores ELSE {EmptyObject})
    /\ requests = [r \in Slots |-> Idle]

Init == InitWith(RawEnvs)

InitTraffic == InitWith(TrafficEnvs)

\* env.ts is evaluated: the runtimeEnv literal is built from process.env and
\* handed to createEnv
LoadEnv ==
    /\ pc = "start"
    /\ LET r == createEnv(RuntimeEnvOf(processEnv), SkipValidation(processEnv), ~window)
       IN  /\ runtimeEnv' = r.runtimeEnv
           /\ env' = r.env
    /\ pc' = "loaded"
    /\ UNCHANGED <<processEnv, window, apiClient, localStorage, requests>>

\* createEnv is called again with the same input: on the object the first
\* call was given, or on the literal built anew from process.env
ReloadEnv ==
    /\ pc \in {"loaded", "reloaded"}
    /\ \E fresh \in BOOLEAN :
         LET obj == IF fresh THEN RuntimeEnvOf(processEnv) ELSE runtimeEnv
             r   == createEnv(obj, SkipValidation(processEnv), ~window)
         IN  /\ runtimeEnv' = r.runtimeEnv
             /\ env' = r.env
    /\ pc' = "reloaded"
    /\ UNCHANGED <<processEnv, window, apiClient, localStorage, requests>>

\* api-client.ts is evaluated: the import of env.ts has thrown, or
\* getBaseURL throws, or the instance is created and its interceptors set
CreateClient ==
    /\ pc \in {"loaded", "reloaded"}
    /\ pc' = "done"
    /\ apiClient' =
         IF env.kind # "ok"
         THEN [state |-> "failed", error |-> "Invalid environment variables"]
         ELSE LET base == getBaseURL(env.data, processEnv)
              IN  IF base.kind = "throw"
                  THEN [state |-> "failed", error |-> base.error]
                  ELSE NewClient(base.value)
    /\ UNCHANGED <<processEnv, window, runtimeEnv, env, localStorage, requests>>

\* A caller invokes a verb of the client
Call(r) ==
    /\ apiClient.state = "created"
    /\ requests[r].pc = "idle"
    /\ \E url \in Paths :
         requests' = [requests EXCEPT ![r] = NewRequest(apiClient, url)]
    /\ UNCHANGED <<processEnv, window, pc, runtimeEnv, env, apiClient, localStorage>>

\* The request interceptor runs on the call's config
RequestInterceptor(r) ==
    /\ requests[r].pc = "queued"
    /\ LET out == authToken(requests[r].headers, window, localStorage, apiClient.headers)
       IN  /\ requests' = [requests EXCEPT
                 ![r].headers = out.headers, ![r].pc = "intercepted"]
           /\ apiClient' = [apiClient EXCEPT !.headers = out.defaults]
    /\ UNCHANGED <<processEnv, window, pc, runtimeEnv, env, localStorage>>

\* The adapter puts the request on the wire
Dispatch(r) ==
    /\ requests[r].pc = "intercepted"
    /\ requests' = [requests EXCEPT ![r].sent = @ + 1, ![r].pc = "inflight"]
    /\ UNCHANGED <<processEnv, window, pc, runtimeEnv, env, apiClient, localStorage>>

\* The server replies with some status, or the transport fails
Respond(r) ==
    /\ requests[r].pc = "inflight"
    /\ \E reply \in {Reply(s, requests[r].url) : s \in Statuses}
                    \cup {NoReply(m, requests[r].url) : m \in TransportFailures} :
         requests' = [requests EXCEPT ![r].response = reply, ![r].pc = "settling"]
    /\ UNCHANGED <<processEnv, window, pc, runtimeEnv, env, apiClient, localStorage>>

\* The response interceptor runs and the call's promise settles; a handler
\* that answers with a new request of the same config sends it again
ResponseInterceptor(r) ==
    /\ requests[r].pc = "settling"
    /\ LET reply == requests[r].response
           out   == IF reply.kind = "resolved"
                    THEN onFulfilled(reply.response)
                    ELSE onRejected(reply.error)
       IN  requests' = [requests EXCEPT
             ![r].log = @ \o out.log,
             ![r].pc = IF out.settle = "retry" THEN "queued" ELSE "done",
             ![r].result =
                 CASE out.settle = "fulfil" -> [kind |-> "fulfilled", value |-> out.value]
                   [] out.settle = "reject" -> [kind |-> "rejected", error |-> out.value]
                   [] OTHER -> Pending]
    /\ UNCHANGED <<processEnv, window, pc, runtimeEnv, env, apiClient, localStorage>>

\* Code outside the client writes or removes the token
StoreToken ==
    /\ window
    /\ \E store \in Stores : localStorage' = store /\ store # localStorage
    /\ UNCHANGED <<processEnv, window, pc, runtimeEnv, env, apiClient, requests>>

NextConfig == LoadEnv \/ ReloadEnv \/ CreateClient

Next ==
    \/ LoadEnv
    \/ ReloadEnv
    \/ CreateClient
    \/ \E r \in Slots : Call(r)
    \/ \E r \in Slots : RequestInterceptor(r)
    \/ \E r \in Slots : Dispatch(r)
    \/ \E r \in Slots : Respond(r)
    \/ \E r \in Slots : ResponseInterceptor(r)
    \/ StoreToken

\* The loader and the construction of the client, over every sample environment
Spec == Init /\ [][NextConfig]_vars

\* The client's traffic, over the environments of TrafficEnvs
SpecTraffic == InitTraffic /\ [][Next]_vars

----------------------------------------------------------------------------
(* Properties of the loader and of the construction, checked under Spec *)

Raw(k) == IF Has(processEnv, k) THEN processEnv[k] ELSE Absent

Skipped == Has(processEnv, "SKIP_ENV_VALIDATION") /\ processEnv["SKIP_ENV_VALIDATION"] # ""

Production == Raw("NODE_ENV") = "production"

Loaded == pc # "start"

Without(obj, k) == [x \in (DOMAIN obj) \ {k} |-> obj[x]]

\* C1, as stated: whenever NEXT_PUBLIC_API_URL is missing, the runtime mode
\* is production and validation is not skipped, construction has failed with
\* the missing-in-production error.
C1_AsStated ==
    (pc = "done" /\ Raw("NEXT_PUBLIC_API_URL") = Absent /\ Production /\ ~Skipped)
        => /\ apiClient.state = "failed"
           /\ apiClient.error = MissingInProduction

\* C1, amended: with NEXT_PUBLIC_API_URL missing (or blank), production mode
\* and validation not skipped, no client instance exists after module
\* evaluation and the fallback is not used; the failure is the
\* missing-in-production error whenever the environment passed validation,
\* and the loader's validation error otherwise.
C1_FailsLoudlyInProduction ==
    (pc = "done" /\ Raw("NEXT_PUBLIC_API_URL") \in {Absent, ""} /\ Production /\ ~Skipped)
        => /\ apiClient.state = "failed"
           /\ env.kind = "ok" => apiClient.error = MissingInProduction
           /\ env.kind # "ok" => apiClient.error = "Invalid environment variables"

C1_Witness ==
    /\ pc = "done" /\ Raw("NEXT_PUBLIC_API_URL") = Absent /\ Production /\ ~Skipped
    /\ env.kind = "ok"
    /\ apiClient = [state |-> "failed", error |-> MissingInProduction]

\* C2: after construction from a ResolvedConfig, the base URL is the public
\* API URL setting whenever that is present and non-empty, in every runtime
\* mode, and is exactly http://localhost:3000/api whenever the setting is
\* absent and the runtime mode is not production.
C2_BaseURLResolution ==
    (pc = "done" /\ env.kind = "ok")
        => /\ (Has(env.data, "NEXT_PUBLIC_API_URL") /\ env.data["NEXT_PUBLIC_API_URL"] # "")
                => /\ apiClient.state = "created"
                   /\ apiClient.baseURL = env.data["NEXT_PUBLIC_API_URL"]
           /\ (~Has(env.data, "NEXT_PUBLIC_API_URL") /\ ~Production)
                => /\ apiClient.state = "created"
                   /\ apiClient.baseURL = "http://localhost:3000/api"

C2_Witness ==
    /\ pc = "done" /\ env.kind = "ok"
    /\ Raw("NODE_ENV") = "development"
    /\ Raw("NEXT_PUBLIC_API_URL") = "https://api.example.com"
    /\ apiClient.state = "created" /\ apiClient.baseURL = "https://api.example.com"

C4_Offending ==
    {k \in {"NODE_ENV"} :
        Raw(k) \notin {Absent, "", "development", "test", "production"}}
    \cup {k \in {"DATABASE_URL", "NEXT_PUBLIC_API_URL"} :
        Raw(k) \notin {Absent, ""} /\ Raw(k) \notin WellFormedURLs}

\* C4: with validation not skipped, load succeeds exactly when no declared
\* variable breaks its rule, and otherwise fails with one error whose fields
\* are exactly the offending variables, all of them.
C4_ReportsEveryViolation ==
    (Loaded /\ ~Skipped)
        => /\ (C4_Offending = {}) <=> (env.kind = "ok")
           /\ (C4_Offending # {})
                => /\ env.kind = "ConfigValidationError"
                   /\ env.fields = C4_Offending

C4_Witness ==
    /\ Loaded /\ ~Skipped
    /\ env.kind = "ConfigValidationError"
    /\ env.fields = {"NODE_ENV", "DATABASE_URL", "NEXT_PUBLIC_API_URL"}

\* C5, as stated: with validation skipped, load does not throw, every
\* present raw value is passed through as it is and every absent variable
\* that has a default carries that default.
C5_AsStated ==
    (Loaded /\ Skipped)
        => /\ env.kind = "ok"
           /\ \A k \in DeclaredNames :
                /\ Raw(k) \notin {Absent, ""}
                        => (Has(env.data, k) /\ env.data[k] = Raw(k))
                /\ (Raw(k) = Absent /\ k = "NODE_ENV")
                        => (Has(env.data, k) /\ env.data[k] = "development")
                /\ (Raw(k) = Absent /\ k = "NEXT_PUBLIC_APP_NAME")
                        => (Has(env.data, k) /\ env.data[k] = "NES App")

\* C10: a repeated call of load on the same raw input and skip flag gives
\* the outcome the call before it gave: the same failure with the same
\* fields, or an equal ResolvedConfig.
C10_LoadIdempotent ==
    [][(pc \in {"loaded", "reloaded"} /\ pc' = "reloaded") => env' = env]_vars

C10_Witness ==
    /\ pc = "reloaded"
    /\ runtimeEnv # RuntimeEnvOf(processEnv)
    /\ env.kind = "ok"

----------------------------------------------------------------------------
(* Properties of the client's traffic, checked under SpecTraffic *)

StoredToken == IF Has(localStorage, "auth_token") THEN localStorage["auth_token"] ELSE Absent

\* C6: in the step in which the request interceptor runs on a request, the
\* request gets Authorization = "Bearer t" if a token store is available and
\* holds a non-empty t under auth_token, and its headers stay as they were,
\* without an Authorization header, if the store is unavailable or the key
\* is absent or empty.
C6_BearerInjection ==
    [][\A r \in Slots :
          (requests[r].pc = "queued" /\ requests'[r].pc = "intercepted")
            => IF window /\ StoredToken \notin {Absent, ""}
               THEN /\ Has(requests'[r].headers, "Authorization")
                    /\ requests'[r].headers["Authorization"] = "Bearer " \o StoredToken
                    /\ StoredToken = "abc123"
                         => requests'[r].headers["Authorization"] = "Bearer abc123"
               ELSE /\ requests'[r].headers = requests[r].headers
                    /\ ~Has(requests'[r].headers, "Authorization")]_vars

C6_Witness ==
    \E r \in Slots :
        /\ requests[r].pc = "inflight"
        /\ Has(requests[r].headers, "Authorization")
        /\ requests[r].headers["Authorization"] = "Bearer abc123"

\* C7: a call that has settled shows its caller what the transport produced:
\* a successful response fulfils the call with that response, and a failure,
\* with any status or with none, rejects it with that same error after a
\* line was logged; a 404 is seen by the caller as a rejection with status 404.
C7_OutcomeUnchanged ==
    \A r \in Slots :
        requests[r].pc = "done" =>
            /\ requests[r].response.kind = "resolved"
                 => requests[r].result =
                        [kind |-> "fulfilled", value |-> requests[r].response.response]
            /\ requests[r].response.kind = "rejected"
                 => /\ requests[r].result =
                        [kind |-> "rejected", error |-> requests[r].response.error]
                    /\ Len(requests[r].log) >= 1

C7_Witness ==
    \E r \in Slots :
        /\ requests[r].pc = "done"
        /\ requests[r].result.kind = "rejected"
        /\ Has(requests[r].result.error.response, "status")
        /\ requests[r].result.error.response["status"] = 404

\* C8: a call sends at most one HTTP request, and once a failure has come
\* back for it the call is rejected without anything further being sent.
C8_NoRetry ==
    \A r \in Slots :
        /\ requests[r].sent <= 1
        /\ (requests[r].response.kind = "rejected" /\ requests[r].pc # "settling")
             => /\ requests[r].pc = "done"
                /\ requests[r].result.kind = "rejected"
                /\ requests[r].sent = 1

C8_Witness ==
    \E r \in Slots :
        /\ requests[r].pc = "done"
        /\ requests[r].sent = 1
        /\ requests[r].result.kind = "rejected"
        /\ Has(requests[r].result.error.response, "status")
        /\ requests[r].result.error.response["status"] = 401

\* C9: in every step, the client instance stays as it was constructed (base
\* URL, timeout 10000, the Content-Type default header, the two interceptor
\* lists); a new request starts without an Authorization header; and the
\* headers of a request change only in that request's own interceptor step,
\* to the token the store holds in that step, with every other request left
\* as it is.
C9_NoSharedMutableState ==
    [][/\ apiClient.state = "created"
            => /\ apiClient' = apiClient
               /\ apiClient.timeout = 10000
               /\ apiClient.headers = [h \in {"Content-Type"} |-> "application/json"]
               /\ Len(apiClient.interceptors.request) = 1
               /\ Len(apiClient.interceptors.response) = 1
       /\ \A r \in Slots :
            /\ (requests[r].pc = "idle" /\ requests'[r].pc = "queued")
                 => ~Has(requests'[r].headers, "Authorization")
            /\ (requests[r].pc # "idle" /\ requests'[r].headers # requests[r].headers)
                 => /\ requests[r].pc = "queued"
                    /\ StoredToken \notin {Absent, ""}
                    /\ requests'[r].headers["Authorization"] = "Bearer " \o StoredToken
                    /\ \A q \in Slots \ {r} : requests'[q] = requests[q]]_vars

C9_Witness ==
    \E r, q \in Slots :
        /\ requests[r].pc = "inflight" /\ requests[q].pc = "inflight"
        /\ Has(requests[r].headers, "Authorization")
        /\ requests[r].headers["Authorization"] = "Bearer abc123"
        /\ ~Has(requests[q].headers, "Authorization")
        /\ StoredToken = "xyz789"

\* The console.error arguments C11 expects for a failure of the given
\* status (0 standing for no status at all), url and message
C11_Expected(hasStatus, status, url, message) ==
    IF hasStatus /\ status = 401 THEN <<"[401 Unauthorized] " \o url>>
    ELSE IF hasStatus /\ status = 403 THEN <<"[403 Forbidden] " \o url>>
    ELSE IF hasStatus /\ status = 404 THEN <<"[404 Not Found] " \o url>>
    ELSE IF hasStatus /\ status = 500 THEN <<"[500 Server Error] " \o url>>
    ELSE IF hasStatus THEN <<"[API Error " \o ToString(status) \o "] " \o url, message>>
    ELSE <<"[API Error undefined] " \o url, message>>

\* C11: a call that has settled after a failed response has logged exactly
\* one line, whose category follows from the status alone (401 Unauthorized,
\* 403 Forbidden, 404 Not Found, 500 Server Error, and for any other status
\* or none the generic line with the status and the error's message); a call
\* that has settled after a successful response has logged nothing.
C11_OneLinePerFailure ==
    \A r \in Slots :
        requests[r].pc = "done" =>
            /\ requests[r].response.kind = "resolved" => requests[r].log = <<>>
            /\ requests[r].response.kind = "rejected" =>
                 LET e == requests[r].response.error
                     hasStatus == "status" \in DOMAIN e.response
                 IN  /\ Len(requests[r].log) = 1
                     /\ requests[r].log[1] =
                            C11_Expected(hasStatus,
                                         IF hasStatus THEN e.response["status"] ELSE 0,
                                         requests[r].url, e.message)

C11_Witness ==
    \E r, q \in Slots :
        /\ requests[r].pc = "done"
        /\ requests[r].log = <<<<"[403 Forbidden] /users">>>>
        /\ requests[q].pc = "done"
        /\ requests[q].log = <<<<"[API Error undefined] /users", "Network Error">>>>

====
